---- MODULE Spec2Model ----
(***************************************************************************)
(* Lemonade stand: the day-simulation core (src/game.js), the orchestrator *)
(* and its sales-animation sequencer (src/unnamed/part_000, the current    *)
(* index.js) and the visual handles they drive (src/canvasController.js).  *)
(*                                                                         *)
(* Numbers.  JavaScript numbers are modelled as exact rationals            *)
(* [n |-> numerator, d |-> denominator] in lowest terms with d > 0;        *)
(* Infinity is [n |-> 1, d |-> 0].  Money is in dollars (0.35 is 7/20).    *)
(* Binary floating-point rounding error is not modelled.                   *)
(***************************************************************************)
EXTENDS Integers, Sequences, FiniteSets, TLC

VARIABLES
    gameState,      \* part_000:11   the reactive GameState record
    isAnimating,    \* part_000:26   the busy flag
    btnDisabled,    \* part_000:314  startDayBtn.disabled
    cups,           \* canvasController.js:369  filled flag of each cup visual
    makerFrame,     \* sprites.maker.frameIndex
    activeCustomer, \* canvasController.js:275
    run,            \* the closure state of the animateSales run in progress
    result,         \* part_000:320  the make_lemonade result held by startDay
    clicks,         \* number of user operations so far (bounds the model)
    lastOp,         \* the handler (and branch) that ran last
    call,           \* function harness: the call under evaluation
    ret             \* function harness: its return value

appVars == <<gameState, isAnimating, btnDisabled, cups, makerFrame,
             activeCustomer, run, result, clicks, lastOp>>
fnVars  == <<call, ret>>
vars    == <<gameState, isAnimating, btnDisabled, cups, makerFrame,
             activeCustomer, run, result, clicks, lastOp, call, ret>>

-----------------------------------------------------------------------------
(* Rational arithmetic standing for JavaScript's number operations.        *)

Abs(x) == IF x < 0 THEN -x ELSE x

RECURSIVE Gcd(_, _)
Gcd(a, b) == IF b = 0 THEN a ELSE Gcd(b, a % b)

\* n/d in lowest terms, d > 0
Q(n, d) ==
    LET g == Gcd(Abs(n), d)
    IN  [n |-> n \div g, d |-> d \div g]

R(k) == [n |-> k, d |-> 1]
Infinity == [n |-> 1, d |-> 0]

RAdd(x, y) == Q(x.n * y.d + y.n * x.d, x.d * y.d)
RSub(x, y) == Q(x.n * y.d - y.n * x.d, x.d * y.d)
RMul(x, y) == Q(x.n * y.n, x.d * y.d)
\* x / k for an integer k > 0
RDivInt(x, k) == Q(x.n, x.d * k)
RLt(x, y) == x.n * y.d < y.n * x.d
RLe(x, y) == x.n * y.d <= y.n * x.d
IsInteger(x) == x.d = 1
\* Math.floor
MathFloor(x) == R(x.n \div x.d)
\* Math.round: the nearest integer, a tie going up
MathRound(x) == MathFloor(RAdd(x, Q(1, 2)))
\* Math.min of two numbers
Min2(x, y) == IF RLe(x, y) THEN x ELSE y
\* Math.round(x * 100) / 100
RoundCents(x) == RDivInt(MathRound(RMul(x, R(100))), 100)

-----------------------------------------------------------------------------
(* src/game.js: tables and constants                                       *)

Weather == {"cold", "cloudy", "sunny", "hot"}

BASE_DEMAND == 30
PRICE_SENSITIVITY == Q(15, 10)
DEMAND_VARIANCE == Q(2, 10)
TASTE_SCORE_MIN == Q(5, 10)
TASTE_SCORE_MAX == Q(12, 10)
TASTE_PENALTY_LEMON == Q(3, 10)
TASTE_PENALTY_SUGAR == Q(2, 10)
PERFECT_RECIPE_BONUS == Q(2, 10)
STARTING_MONEY == R(2)
STARTING_PRICE == R(1)

\* mutant: cold days draw more customers than cloudy ones
WeatherFactor_coldFirst ==
    [cold |-> Q(9, 10), cloudy |-> Q(8, 10), sunny |-> R(1), hot |-> Q(14, 10)]

WeatherFactor ==
    [cold |-> Q(5, 10), cloudy |-> Q(8, 10), sunny |-> R(1), hot |-> Q(14, 10)]

IdealPrice ==
    [cold |-> Q(20, 100), cloudy |-> Q(30, 100), sunny |-> Q(35, 100),
     hot |-> Q(50, 100)]

IdealRecipe ==
    [cold   |-> [lemons |-> 1, sugar |-> 2, ice |-> 1],
     cloudy |-> [lemons |-> 1, sugar |-> 1, ice |-> 2],
     sunny  |-> [lemons |-> 1, sugar |-> 1, ice |-> 3],
     hot    |-> [lemons |-> 1, sugar |-> 1, ice |-> 4]]

SupplyTypes == {"lemons", "sugar", "ice", "cups"}

\* mutant: the second tier of lemons starts at 52, leaving 51 unpriced
SupplyPricing_gap ==
    [lemons |-> << [min |-> 1,   max |-> 50,  price |-> Q(20, 1000)],
                   [min |-> 52,  max |-> 100, price |-> Q(18, 1000)],
                   [min |-> 101, max |-> -1,  price |-> Q(15, 1000)] >>,
     sugar  |-> << [min |-> 1,   max |-> 50,  price |-> Q(10, 1000)],
                   [min |-> 51,  max |-> 100, price |-> Q(9, 1000)],
                   [min |-> 101, max |-> -1,  price |-> Q(8, 1000)] >>,
     ice    |-> << [min |-> 1,   max |-> 100, price |-> Q(10, 1000)],
                   [min |-> 101, max |-> 300, price |-> Q(9, 1000)],
                   [min |-> 301, max |-> -1,  price |-> Q(8, 1000)] >>,
     cups   |-> << [min |-> 1,   max |-> 100, price |-> Q(10, 1000)],
                   [min |-> 101, max |-> -1,  price |-> Q(9, 1000)] >>]

\* a tier's max of Infinity is written as max = -1
SupplyPricing ==
    [lemons |-> << [min |-> 1,   max |-> 50,  price |-> Q(20, 1000)],
                   [min |-> 51,  max |-> 100, price |-> Q(18, 1000)],
                   [min |-> 101, max |-> -1,  price |-> Q(15, 1000)] >>,
     sugar  |-> << [min |-> 1,   max |-> 50,  price |-> Q(10, 1000)],
                   [min |-> 51,  max |-> 100, price |-> Q(9, 1000)],
                   [min |-> 101, max |-> -1,  price |-> Q(8, 1000)] >>,
     ice    |-> << [min |-> 1,   max |-> 100, price |-> Q(10, 1000)],
                   [min |-> 101, max |-> 300, price |-> Q(9, 1000)],
                   [min |-> 301, max |-> -1,  price |-> Q(8, 1000)] >>,
     cups   |-> << [min |-> 1,   max |-> 100, price |-> Q(10, 1000)],
                   [min |-> 101, max |-> -1,  price |-> Q(9, 1000)] >>]

WeatherChance ==
    << [type |-> "cloudy", weight |-> 40],
       [type |-> "sunny",  weight |-> 35],
       [type |-> "hot",    weight |-> 15],
       [type |-> "cold",   weight |-> 10] >>

-----------------------------------------------------------------------------
(* src/game.js: functions                                                  *)

\* t.min <= quantity <= t.max, for an integer quantity
InTier(t, quantity) ==
    quantity >= t.min /\ (t.max = -1 \/ quantity <= t.max)

\* tiers.find(...): the index of the first matching tier, 0 when none matches
FindTier(tiers, quantity) ==
    LET hits == {k \in 1..Len(tiers) : InTier(tiers[k], quantity)}
    IN  IF hits = {} THEN 0 ELSE CHOOSE k \in hits : \A j \in hits : k <= j

\* mutant: every quantity is priced at the first tier
calculate_supply_cost_firstTier(item, quantity) ==
    IF quantity <= 0 THEN R(0)
    ELSE RoundCents(RMul(R(quantity), SupplyPricing[item][1].price))

calculate_supply_cost(item, quantity) ==
    IF quantity <= 0 THEN R(0)
    ELSE IF item \notin DOMAIN SupplyPricing THEN R(0)
    ELSE LET tiers == SupplyPricing[item]
             k == FindTier(tiers, quantity)
         IN  IF k = 0 THEN R(0)
             ELSE RoundCents(RMul(R(quantity), tiers[k].price))

init_game ==
    [player_money   |-> STARTING_MONEY,
     recipe         |-> [lemons |-> 0, sugar |-> 0, ice |-> 0],
     supplies       |-> [lemons |-> R(0), sugar |-> R(0), ice |-> R(0),
                         cups |-> R(0)],
     weather        |-> "sunny",
     price_per_cup  |-> STARTING_PRICE,
     cups_sold      |-> R(0),
     cost_per_cup   |-> R(0),
     current_day    |-> 1,
     total_earnings |-> R(0)]

\* mutant: the nested records are made once and shared by later calls
init_game_alloc_shared(heap) ==
    IF heap = <<>>
    THEN [heap |-> <<init_game.recipe, init_game.supplies,
                     [init_game EXCEPT !.recipe = 1, !.supplies = 2]>>,
          ref |-> 3]
    ELSE [heap |-> Append(heap, [init_game EXCEPT !.recipe = 1, !.supplies = 2]),
          ref |-> Len(heap) + 1]

\* init_game() on a heap of objects, a reference being an index of the heap:
\* each object literal it evaluates makes a new object
init_game_alloc(heap) ==
    LET recipeRef == Len(heap) + 1
        suppliesRef == Len(heap) + 2
    IN  [heap |-> heap \o <<init_game.recipe, init_game.supplies,
                            [init_game EXCEPT !.recipe = recipeRef,
                                              !.supplies = suppliesRef]>>,
         ref |-> Len(heap) + 3]

\* mutant: the ice amount of the recipe is kept
set_recipe_keepIce(game_state, lemons, sugar, ice) ==
    [game_state EXCEPT !.recipe =
        [lemons |-> lemons, sugar |-> sugar, ice |-> game_state.recipe.ice]]

\* console.assert only logs: a negative amount is stored like any other
set_recipe(game_state, lemons, sugar, ice) ==
    [game_state EXCEPT !.recipe =
        [lemons |-> lemons, sugar |-> sugar, ice |-> ice]]

RECURSIVE WeatherWalk_noFallback(_, _)
RECURSIVE WeatherWalk(_, _)
\* mutant: nothing is returned once the loop has run through every entry
WeatherWalk_noFallback(k, roll) ==
    IF k > Len(WeatherChance) THEN "undefined"
    ELSE IF RLt(roll, R(WeatherChance[k].weight)) THEN WeatherChance[k].type
    ELSE WeatherWalk_noFallback(k + 1, RSub(roll, R(WeatherChance[k].weight)))

\* the for loop of set_weather from entry k on, with the running roll
WeatherWalk(k, roll) ==
    IF k > Len(WeatherChance) THEN "sunny"
    ELSE IF RLt(roll, R(WeatherChance[k].weight)) THEN WeatherChance[k].type
    ELSE WeatherWalk(k + 1, RSub(roll, R(WeatherChance[k].weight)))

RECURSIVE SumWeights(_)
SumWeights(k) ==
    IF k = 0 THEN 0 ELSE WeatherChance[k].weight + SumWeights(k - 1)

\* mutant: the roll is compared with the weights unscaled
set_weather_unscaled(game_state, random) ==
    [game_state EXCEPT !.weather = WeatherWalk(1, random)]

set_weather(game_state, random) ==
    LET totalWeight == SumWeights(Len(WeatherChance))
        roll == RMul(random, R(totalWeight))
    IN  [game_state EXCEPT !.weather = WeatherWalk(1, roll)]

\* mutant: the cost is stored as given
set_price_per_cup_unrounded(game_state, cost) ==
    [game_state EXCEPT !.price_per_cup = cost]

\* mutant: setting the price also clears the sales of the day before
set_price_per_cup_resetSold(game_state, cost) ==
    [game_state EXCEPT !.price_per_cup = RoundCents(cost), !.cups_sold = R(0)]

\* console.assert only logs: a negative cost is rounded and stored
set_price_per_cup(game_state, cost) ==
    [game_state EXCEPT !.price_per_cup = RoundCents(cost)]

calculate_cups_sold(price_per_cup, cups_in_supplies, weather, tasteScore, random) ==
    LET weather_factor ==
            IF weather \in DOMAIN WeatherFactor THEN WeatherFactor[weather]
            ELSE R(1)
        ideal_price ==
            IF weather \in DOMAIN IdealPrice THEN IdealPrice[weather]
            ELSE Q(35, 100)
        raw_effect ==
            RSub(R(1), RMul(RSub(price_per_cup, ideal_price), PRICE_SENSITIVITY))
        price_effect == IF RLt(raw_effect, R(0)) THEN R(0) ELSE raw_effect
        base == RMul(RMul(RMul(R(BASE_DEMAND), weather_factor), price_effect),
                     tasteScore)
        noise == RAdd(RSub(R(1), RDivInt(DEMAND_VARIANCE, 2)),
                      RMul(random, DEMAND_VARIANCE))
        demand == RMul(base, noise)
    IN  Min2(MathFloor(demand), cups_in_supplies)

\* mutant: an exact match earns no bonus
calculate_taste_score_noBonus(lemons_per_cup, sugar_per_cup, ideal_lemons, ideal_sugar) ==
    LET lemon_diff == Abs(lemons_per_cup - ideal_lemons)
        sugar_diff == Abs(sugar_per_cup - ideal_sugar)
        score == RSub(R(1), RAdd(RMul(R(lemon_diff), TASTE_PENALTY_LEMON),
                                 RMul(R(sugar_diff), TASTE_PENALTY_SUGAR)))
    IN  IF RLt(score, TASTE_SCORE_MIN) THEN TASTE_SCORE_MIN ELSE score

calculate_taste_score(lemons_per_cup, sugar_per_cup, ideal_lemons, ideal_sugar) ==
    LET lemon_diff == Abs(lemons_per_cup - ideal_lemons)
        sugar_diff == Abs(sugar_per_cup - ideal_sugar)
        score ==
            IF lemon_diff = 0 /\ sugar_diff = 0
            THEN RAdd(R(1), PERFECT_RECIPE_BONUS)
            ELSE RSub(R(1), RAdd(RMul(R(lemon_diff), TASTE_PENALTY_LEMON),
                                 RMul(R(sugar_diff), TASTE_PENALTY_SUGAR)))
        low == IF RLt(score, TASTE_SCORE_MIN) THEN TASTE_SCORE_MIN ELSE score
    IN  IF RLt(TASTE_SCORE_MAX, low) THEN TASTE_SCORE_MAX ELSE low

\* supplies / recipe amount when the recipe uses the ingredient, else Infinity
PerCup(supply, amount) ==
    IF amount > 0 THEN RDivInt(supply, amount) ELSE Infinity

\* the Math.min(...) of make_lemonade and calculate_maximum_cups_available
CupsAvailable(supplies, recipe) ==
    Min2(Min2(PerCup(supplies.lemons, recipe.lemons),
              PerCup(supplies.sugar, recipe.sugar)),
         Min2(PerCup(supplies.ice, recipe.ice), supplies.cups))

\* mutant: the early return for a lemon-free recipe is missing
NoLemons_never(recipe) == FALSE

\* the guard "recipe.lemons === 0" of make_lemonade's early return
NoLemons(recipe) == recipe.lemons = 0

\* mutant: the cups sold are not taken off the cup supply
remaining_supplies_keepCups(supplies, recipe, cups_sold) ==
    [lemons |-> RSub(supplies.lemons, RMul(R(recipe.lemons), cups_sold)),
     sugar  |-> RSub(supplies.sugar, RMul(R(recipe.sugar), cups_sold)),
     ice    |-> RSub(supplies.ice, RMul(R(recipe.ice), cups_sold)),
     cups   |-> supplies.cups]

\* the remaining_supplies record of make_lemonade
remaining_supplies(supplies, recipe, cups_sold) ==
    [lemons |-> RSub(supplies.lemons, RMul(R(recipe.lemons), cups_sold)),
     sugar  |-> RSub(supplies.sugar, RMul(R(recipe.sugar), cups_sold)),
     ice    |-> RSub(supplies.ice, RMul(R(recipe.ice), cups_sold)),
     cups   |-> RSub(supplies.cups, cups_sold)]

\* mutant: the profit of one cup, whatever was sold
profit_oneCup(price, cups_sold) == price

\* const profit = price * cups_sold
profit(price, cups_sold) == RMul(price, cups_sold)

\* random is the Math.random() that calculate_cups_sold draws by default
make_lemonade(game_state, random) ==
    LET recipe == game_state.recipe
        weather == game_state.weather
        price == game_state.price_per_cup
        ideal == IdealRecipe[weather]
        tasteScore == calculate_taste_score(recipe.lemons, recipe.sugar,
                                            ideal.lemons, ideal.sugar)
        cups_available == CupsAvailable(game_state.supplies, recipe)
        cups_sold == calculate_cups_sold(price, cups_available, weather,
                                         tasteScore, random)
        remaining == remaining_supplies(game_state.supplies, recipe, cups_sold)
        earned == profit(price, cups_sold)
    IN  IF NoLemons(recipe)
        THEN [game_state EXCEPT !.cups_sold = R(0)]
        ELSE [game_state EXCEPT
                !.player_money = RAdd(game_state.player_money, earned),
                !.supplies = remaining,
                !.cups_sold = cups_sold,
                !.total_earnings = RAdd(game_state.total_earnings, earned)]

\* mutant: the cup itself costs nothing
calculate_cost_per_cup_noCup(game_state, recipe) ==
    LET cost ==
            RAdd(RAdd(RMul(R(recipe.lemons), SupplyPricing.lemons[1].price),
                      RMul(R(recipe.sugar), SupplyPricing.sugar[1].price)),
                 RMul(R(recipe.ice), SupplyPricing.ice[1].price))
    IN  [game_state EXCEPT !.cost_per_cup = RoundCents(cost)]

calculate_cost_per_cup(game_state, recipe) ==
    LET cost ==
            RAdd(RAdd(RMul(R(recipe.lemons), SupplyPricing.lemons[1].price),
                      RMul(R(recipe.sugar), SupplyPricing.sugar[1].price)),
                 RAdd(RMul(R(recipe.ice), SupplyPricing.ice[1].price),
                      SupplyPricing.cups[1].price))
    IN  [game_state EXCEPT !.cost_per_cup = RoundCents(cost)]

\* mutant: the minimum is returned without Math.floor
calculate_maximum_cups_available_unfloored(supplies, recipe) ==
    IF recipe.lemons = 0 THEN R(0)
    ELSE CupsAvailable(supplies, recipe)

calculate_maximum_cups_available(supplies, recipe) ==
    IF recipe.lemons = 0 THEN R(0)
    ELSE MathFloor(CupsAvailable(supplies, recipe))

-----------------------------------------------------------------------------
(* Bounds and input sets                                                   *)

MaxClicks == 5          \* user operations per behaviour
MaxQty == 3             \* largest quantity typed into the shop
MaxRecipe == 2          \* largest ingredient amount typed into the recipe form
MaxRecipeFn == 2        \* largest recipe amount of a harness input state

\* values standing for Math.random(), all in [0, 1)
Rolls == {Q(0, 1), Q(1, 2), Q(99, 100)}
\* parseInt(input.value) || 0 of the shop's quantity field
QtyInputs == {-1, 0, MaxQty}
\* parseInt(input.value) || 0 of the three recipe fields
RecipeInputs ==
    {r \in [lemons : -1..MaxRecipe, sugar : -1..1, ice : -1..1] :
        /\ r.sugar = 0 \/ r.ice = 0
        /\ Cardinality({f \in {"lemons", "sugar", "ice"} : r[f] < 0}) <= 1}
\* Number(priceInput.value); at the negative price the loss of a day of
\* MaxQty cups exceeds the starting money
PriceInputs == {R(-1), Q(35, 100), Q(985, 1000)}
\* values of the Math.random() inside set_weather, one per weather band
WeatherRolls == {Q(0, 1), Q(1, 2), Q(4, 5), Q(99, 100), R(1)}
\* values of the Math.random() inside getRandomCustomerKey
KeyRolls == {Q(0, 1), Q(99, 100)}
\* milliseconds between two display frames
FrameMs == {250, 500}

-----------------------------------------------------------------------------
(* src/canvasController.js: the visual handles                             *)

NumCups == 4
NumCustomerKeys == 15

\* mutant: filling a cup leaves it as it is
CupFill_noop(cs, k) == cs

\* cups[k].fill() / cups[k].empty(), k counted from 0
CupFill(cs, k) == [cs EXCEPT ![k + 1] = TRUE]

\* mutant: emptying a cup leaves it as it is
CupEmpty_noop(cs, k) == cs

CupEmpty(cs, k) == [cs EXCEPT ![k + 1] = FALSE]

\* spriteKey 0 is null, 1..NumCustomerKeys are customer1..customer15
setActiveCustomer(spriteKey, positionIndex, alpha) ==
    [spriteKey |-> spriteKey, positionIndex |-> positionIndex, alpha |-> alpha]

getRandomCustomerKey(random) ==
    MathFloor(RMul(random, R(NumCustomerKeys))).n + 1

-----------------------------------------------------------------------------
(* src/unnamed/part_000: the orchestrator                                  *)

FadeDuration == 500

\* Object.assign(gameState, newState), newState given as a record of fields
setState(state, newState) ==
    [f \in DOMAIN state |->
        IF f \in DOMAIN newState THEN newState[f] ELSE state[f]]

\* number of integers i >= 0 with i < x: the trips of "for (i = 0; i < x; i++)"
LoopTrips(x) ==
    IF x.n <= 0 THEN 0
    ELSE IF x.d = 1 THEN x.n ELSE (x.n \div x.d) + 1

\* mutant: position i takes the value of position j, which keeps its own
Swap_overwrite(a, i, j) == [a EXCEPT ![i + 1] = a[j + 1]]

\* [a[i], a[j]] = [a[j], a[i]], indices counted from 0
Swap(a, i, j) == [a EXCEPT ![i + 1] = a[j + 1], ![j + 1] = a[i + 1]]

\* j = Math.floor(Math.random() * (i + 1))
ShuffleIndex(i, random) == MathFloor(RMul(random, R(i + 1))).n

RECURSIVE Shuffle(_, _, _)
\* the Fisher-Yates loop from index i down to 1; randoms[i] is the value
\* Math.random() returns in the iteration for index i
Shuffle(a, i, randoms) ==
    IF i < 1 THEN a
    ELSE Shuffle(Swap(a, i, ShuffleIndex(i, randoms[i])), i - 1, randoms)

\* the array before the shuffle: Array(maxCups).fill(false), then
\* attempts[i] = true for i < cupsSold, which lengthens a shorter array
Unshuffled(maxCups, cupsSold) ==
    LET trues == LoopTrips(cupsSold)
        len == IF trues > maxCups THEN trues ELSE maxCups
    IN  [k \in 1..len |-> k <= trues]

\* maxCups is an integer >= 0 here: Array(maxCups) throws for a negative one
generateSalesAttempts(maxCups, cupsSold, randoms) ==
    LET a == Unshuffled(maxCups, cupsSold)
    IN  Shuffle(a, Len(a) - 1, randoms)

IdleRun ==
    [phase |-> "idle", attempts |-> <<>>, i |-> 0, cupIndex |-> 0,
     posIndex |-> 0, customerKey |-> 0, elapsed |-> 0, fadedOut |-> 0]
NoResult == [pending |-> FALSE]
NoCall == [fn |-> "none"]
NoRet == [done |-> FALSE]

\* the page once loaded: the module has been evaluated and the callback of
\* whenSpritesReady has emptied the cups, before the first click
Init ==
    /\ gameState = init_game
    /\ isAnimating = FALSE
    /\ btnDisabled = FALSE
    /\ cups = [k \in 1..NumCups |-> FALSE]
    /\ makerFrame = 0
    /\ activeCustomer = setActiveCustomer(0, 0, R(0))
    /\ run = IdleRun
    /\ result = NoResult
    /\ clicks = 0
    /\ lastOp = "init"
    /\ call = NoCall
    /\ ret = NoRet

\* mutant: every purchase is taken to be affordable
CannotAfford_never(cost, money) == FALSE

\* the test "cost > gameState.player_money" of the buy handler
CannotAfford(cost, money) == RLt(money, cost)

\* the body of a shop buy button's click handler, for the button's item and
\* the quantity parseInt(input.value) || 0
shopBuy(item, qty) ==
    LET cost == calculate_supply_cost(item, qty)
    IN  IF CannotAfford(cost, gameState.player_money)
        THEN /\ lastOp' = "shopBuy_refused"
             /\ UNCHANGED gameState
        ELSE /\ lastOp' = "shopBuy"
             /\ gameState' = setState(gameState,
                   [player_money |-> RSub(gameState.player_money, cost),
                    supplies |-> [gameState.supplies EXCEPT
                                    ![item] = RAdd(@, R(qty))]])

\* the click handler of a shop buy button
ShopBuy(item, qty) ==
    /\ clicks < MaxClicks
    /\ clicks' = clicks + 1
    /\ shopBuy(item, qty)
    /\ UNCHANGED <<isAnimating, btnDisabled, cups, makerFrame,
                   activeCustomer, run, result, call, ret>>

\* the click handler of the price dialog's save button
PriceSave(value) ==
    /\ clicks < MaxClicks
    /\ clicks' = clicks + 1
    /\ lastOp' = "priceSave"
    /\ gameState' = setState(gameState, set_price_per_cup(gameState, value))
    /\ UNCHANGED <<isAnimating, btnDisabled, cups, makerFrame,
                   activeCustomer, run, result, call, ret>>

\* the click handler of the recipe dialog's save button
RecipeSave(recipe) ==
    LET costed == calculate_cost_per_cup(gameState, recipe)
    IN  /\ clicks < MaxClicks
        /\ clicks' = clicks + 1
        /\ lastOp' = "recipeSave"
        /\ gameState' = setState(gameState,
              [recipe |-> recipe, cost_per_cup |-> costed.cost_per_cup])
        /\ UNCHANGED <<isAnimating, btnDisabled, cups, makerFrame,
                       activeCustomer, run, result, call, ret>>

\* fillAllCups(): cups.forEach(cup => cup.fill())
fillAllCups == [k \in 1..NumCups |-> TRUE]

\* mutant: the callback rolls the weather without committing the day
DayComplete_rollOnly(day, weatherRandom) ==
    /\ gameState' = setState(gameState,
                        [weather |-> set_weather(gameState, weatherRandom).weather])
    /\ isAnimating' = FALSE
    /\ btnDisabled' = FALSE

\* the completion callback startDay hands to animateSales, for the day's
\* make_lemonade result day; weatherRandom is set_weather's Math.random()
DayComplete(day, weatherRandom) ==
    LET committed == setState(gameState, day)
        newWeatherState == set_weather(committed, weatherRandom)
    IN  /\ gameState' = setState(committed, [weather |-> newWeatherState.weather])
        /\ isAnimating' = FALSE
        /\ btnDisabled' = FALSE

\* nextAttempt() once i >= attempts.length: clear the customer, idle the
\* vendor, call onComplete
Finish ==
    /\ activeCustomer' = setActiveCustomer(0, 0, R(0))
    /\ makerFrame' = 0
    /\ run' = IdleRun
    /\ result' = NoResult
    /\ \E weatherRandom \in WeatherRolls : DayComplete(result, weatherRandom)

\* mutant: the customer slot is never switched
NextSlot_same(posIndex) == posIndex

\* posIndex = (posIndex + 1) % 2
NextSlot(posIndex) == (posIndex + 1) % 2

\* mutant: the cup index is not advanced after a buy
NextCup_stay(cupIndex) == cupIndex

\* cupIndex = (cupIndex + 1) % cups.length
NextCup(cupIndex) == (cupIndex + 1) % NumCups

\* nextAttempt() for attempt i of r: pick a customer, switch the slot, and
\* run the first step of the fade-in (elapsed 0, alpha 0)
BeginAttempt(r) ==
    \E keyRandom \in KeyRolls :
    LET customerKey == getRandomCustomerKey(keyRandom)
        posIndex == NextSlot(r.posIndex)
    IN  /\ run' = [r EXCEPT !.phase = "fade_in", !.customerKey = customerKey,
                            !.posIndex = posIndex, !.elapsed = 0]
        /\ activeCustomer' = setActiveCustomer(customerKey, posIndex, R(0))

\* mutant: the busy flag is not consulted
Busy_never(animating) == FALSE

\* the guard "if (isAnimating) return" of startDay
Busy(animating) == animating

\* mutant: the run is taken to be over one attempt early
AllProcessed_early(i, attempts) == i + 1 >= Len(attempts)

\* the test "i >= attempts.length" at the head of nextAttempt()
AllProcessed(i, attempts) == i >= Len(attempts)

\* animateSales(attempts, onComplete) as startDay calls it, with the busy
\* flag startDay has just set; day is the make_lemonade result its callback
\* commits.  An empty sequence completes within the call.
animateSales(attempts, day) ==
    IF AllProcessed(0, attempts)
    THEN /\ lastOp' = "startDay_complete"
         /\ activeCustomer' = setActiveCustomer(0, 0, R(0))
         /\ makerFrame' = 0
         /\ run' = IdleRun
         /\ result' = NoResult
         /\ \E weatherRandom \in WeatherRolls : DayComplete(day, weatherRandom)
    ELSE /\ lastOp' = "startDay"
         /\ isAnimating' = TRUE
         /\ btnDisabled' = TRUE
         /\ result' = day
         /\ BeginAttempt([IdleRun EXCEPT !.attempts = attempts])
         /\ UNCHANGED <<gameState, makerFrame>>

\* the guard "if (gameState.supplies.cups <= 0)" of startDay
NeedsCups(supplies) == RLe(supplies.cups, R(0))

\* mutant: only a recipe with exactly no lemons is turned away
NeedsLemons_zeroOnly(recipe) == recipe.lemons = 0

\* the guard "if (recipe.lemons <= 0)" of startDay
NeedsLemons(recipe) == recipe.lemons <= 0

\* the startDay handler; random is the Math.random() of make_lemonade's
\* calculate_cups_sold, randoms those of the shuffle.  A request may arrive
\* in any state: the handler's own guards, not the disabled button, decide.
StartDay ==
    /\ clicks < MaxClicks
    /\ clicks' = clicks + 1
    /\ UNCHANGED <<call, ret>>
    /\ IF NeedsCups(gameState.supplies)
       THEN /\ lastOp' = "startDay_no_cups"
            /\ UNCHANGED <<gameState, isAnimating, btnDisabled, cups,
                           makerFrame, activeCustomer, run, result>>
       ELSE IF NeedsLemons(gameState.recipe)
       THEN /\ lastOp' = "startDay_no_lemons"
            /\ UNCHANGED <<gameState, isAnimating, btnDisabled, cups,
                           makerFrame, activeCustomer, run, result>>
       ELSE IF Busy(isAnimating)
       THEN /\ lastOp' = "startDay_busy"
            /\ UNCHANGED <<gameState, isAnimating, btnDisabled, cups,
                           makerFrame, activeCustomer, run, result>>
       ELSE \E random \in Rolls :
            LET maxCups == calculate_maximum_cups_available(
                               gameState.supplies, gameState.recipe)
                day == make_lemonade(gameState, random)
                cupsSold == day.cups_sold
            IN  /\ cups' = fillAllCups
                /\ IF maxCups.n < 0
                   THEN \* Array(maxCups) throws a RangeError: startDay ends
                        \* with the busy flag set and no run started
                        /\ lastOp' = "startDay_throw"
                        /\ isAnimating' = TRUE
                        /\ btnDisabled' = TRUE
                        /\ UNCHANGED <<gameState, makerFrame, activeCustomer,
                                       run, result>>
                   ELSE \E randoms \in
                            [1..(Len(Unshuffled(maxCups.n, cupsSold)) - 1) -> Rolls] :
                        animateSales(
                            generateSalesAttempts(maxCups.n, cupsSold, randoms),
                            day)

\* mutant: the progress of a fade is not capped at 1
FadeProgress_unclamped(elapsed) == Q(elapsed, FadeDuration)

\* alpha of a fade after elapsed milliseconds
FadeProgress(elapsed) ==
    Min2(Q(elapsed, FadeDuration), R(1))
FadeAlpha(fromAlpha, toAlpha, elapsed) ==
    RAdd(R(fromAlpha), RMul(R(toAlpha - fromAlpha), FadeProgress(elapsed)))

\* mutant: a fade reports completion on its first frame
FadeDone_atOnce(progress) == TRUE

\* the test "progress < 1" of fadeCustomer's step(), negated: the fade is over
FadeDone(progress) == ~RLt(progress, R(1))

\* a display frame: the step() of the fade in progress, dt ms after the last.
\* run.fadedOut counts the fade-outs of the run whose step has shown the
\* final alpha (progress 1).
Frame(dt) ==
    /\ run.phase \in {"fade_in", "fade_out"}
    /\ UNCHANGED <<clicks, call, ret>>
    /\ LET elapsed == run.elapsed + dt
           progress == FadeProgress(elapsed)
           fromAlpha == IF run.phase = "fade_in" THEN 0 ELSE 1
           toAlpha == 1 - fromAlpha
           shown == setActiveCustomer(run.customerKey, run.posIndex,
                                      FadeAlpha(fromAlpha, toAlpha, elapsed))
           outs == IF run.phase = "fade_out" /\ progress = R(1)
                   THEN run.fadedOut + 1 ELSE run.fadedOut
       IN  IF ~FadeDone(progress)
           THEN /\ lastOp' = "frame"
                /\ run' = [run EXCEPT !.elapsed = elapsed]
                /\ activeCustomer' = shown
                /\ UNCHANGED <<gameState, isAnimating, btnDisabled, cups,
                               makerFrame, result>>
           ELSE IF run.phase = "fade_in"
           THEN /\ activeCustomer' = shown
                /\ UNCHANGED <<gameState, isAnimating, btnDisabled, result>>
                /\ IF run.attempts[run.i + 1]
                   THEN /\ lastOp' = "fade_in_done_buy"
                        /\ makerFrame' = 1
                        /\ cups' = CupEmpty(cups, run.cupIndex)
                        /\ run' = [run EXCEPT !.phase = "buy_wait",
                                              !.elapsed = elapsed]
                   ELSE /\ lastOp' = "fade_in_done_pass"
                        /\ run' = [run EXCEPT !.phase = "pass_wait",
                                              !.elapsed = elapsed]
                        /\ UNCHANGED <<makerFrame, cups>>
           ELSE LET next == [run EXCEPT !.i = run.i + 1, !.fadedOut = outs]
                IN  IF AllProcessed(next.i, next.attempts)
                    THEN /\ lastOp' = "complete"
                         /\ Finish
                         /\ UNCHANGED cups
                    ELSE /\ lastOp' = "next_attempt"
                         /\ BeginAttempt(next)
                         /\ UNCHANGED <<gameState, isAnimating, btnDisabled,
                                        cups, makerFrame, result>>

\* a setTimeout callback of the attempt in progress: after a buy's 600 ms the
\* vendor idles and the cup is refilled; either way the fade-out starts
Timer ==
    /\ run.phase \in {"buy_wait", "pass_wait"}
    /\ UNCHANGED <<clicks, call, ret, gameState, isAnimating, btnDisabled,
                   result>>
    /\ activeCustomer' = setActiveCustomer(run.customerKey, run.posIndex, R(1))
    /\ IF run.phase = "buy_wait"
       THEN /\ lastOp' = "timer_buy"
            /\ makerFrame' = 0
            /\ cups' = CupFill(cups, run.cupIndex)
            /\ run' = [run EXCEPT !.phase = "fade_out", !.elapsed = 0,
                                  !.cupIndex = NextCup(run.cupIndex)]
       ELSE /\ lastOp' = "timer_pass"
            /\ run' = [run EXCEPT !.phase = "fade_out", !.elapsed = 0]
            /\ UNCHANGED <<makerFrame, cups>>

Next ==
    \/ \E item \in SupplyTypes, qty \in QtyInputs : ShopBuy(item, qty)
    \/ \E value \in PriceInputs : PriceSave(value)
    \/ \E recipe \in RecipeInputs : RecipeSave(recipe)
    \/ StartDay
    \/ \E dt \in FrameMs : Frame(dt)
    \/ Timer

Spec == Init /\ [][Next]_vars

-----------------------------------------------------------------------------
(* Function harness: a call drawn from bounded argument sets, then applied *)

\* supply counts of a harness input state
FnSupplyVals == {R(0), R(5), R(40)}
\* (player_money, total_earnings, cups_sold) of a harness input state
FnLedgers == {<<R(2), R(0), R(0)>>, <<R(0), R(5), R(3)>>}
FnPrices == {Q(35, 100), R(1)}

FnStates ==
    {[init_game EXCEPT
        !.player_money = l[1], !.total_earnings = l[2], !.cups_sold = l[3],
        !.recipe = rc, !.supplies = sp, !.weather = w, !.price_per_cup = p] :
     l \in FnLedgers,
     rc \in [lemons : 0..MaxRecipeFn, sugar : 0..MaxRecipeFn,
             ice : 0..MaxRecipeFn],
     sp \in [lemons : FnSupplyVals, sugar : FnSupplyVals, ice : FnSupplyVals,
             cups : FnSupplyVals],
     w \in Weather, p \in FnPrices}

make_lemonade_calls ==
    {[fn |-> "make_lemonade", game_state |-> st] : st \in FnStates}

calculate_cups_sold_calls ==
    [fn : {"calculate_cups_sold"},
     price_per_cup : {R(0), Q(35, 100), R(1), Q(102, 100)},
     cups_in_supplies : {R(-1), R(0), Q(1, 3), Q(5, 2), R(5), R(40), R(1000)},
     weather : Weather,
     tasteScore : {Q(5, 10), Q(7, 10), R(1), Q(12, 10)},
     random : Rolls]

MaxCupsFn == 3
FnCupsSold == {R(0), Q(1, 2), R(1), R(2), Q(5, 2), R(4)}

generateSalesAttempts_calls ==
    [fn : {"generateSalesAttempts"}, maxCups : 0..MaxCupsFn,
     cupsSold : FnCupsSold]

\* a fresh state and a state in the middle of a game
FnFrameStates ==
    {init_game,
     [player_money   |-> Q(165, 100),
      recipe         |-> [lemons |-> 1, sugar |-> 2, ice |-> 1],
      supplies       |-> [lemons |-> R(5), sugar |-> R(40), ice |-> R(7),
                          cups |-> R(12)],
      weather        |-> "hot",
      price_per_cup  |-> Q(35, 100),
      cups_sold      |-> R(3),
      cost_per_cup   |-> Q(6, 100),
      current_day    |-> 1,
      total_earnings |-> Q(105, 100)]}

FnWeatherRolls ==
    {R(0), Q(39, 100), Q(2, 5), Q(74, 100), Q(3, 4), Q(89, 100), Q(9, 10),
     Q(9999, 10000), R(1)}

set_weather_calls ==
    [fn : {"set_weather"}, game_state : FnFrameStates, random : FnWeatherRolls]

FnCosts ==
    {Q(-1, 2), R(0), Q(4, 1000), Q(5, 1000), Q(1, 10), Q(1, 3), Q(987, 1000),
     Q(1234, 1000), Q(1235, 1000), R(2)}

set_price_per_cup_calls ==
    [fn : {"set_price_per_cup"}, game_state : FnFrameStates, cost : FnCosts]

set_recipe_calls ==
    [fn : {"set_recipe"}, game_state : FnFrameStates,
     lemons : 0..MaxRecipeFn, sugar : 0..MaxRecipeFn, ice : 0..MaxRecipeFn]

init_game_calls == {[fn |-> "init_game"]}

\* quantities on both sides of every tier boundary
FnQuantities == {-5, 0, 1, 2, 50, 51, 100, 101, 200, 300, 301}

calculate_supply_cost_calls ==
    [fn : {"calculate_supply_cost"}, item : SupplyTypes,
     quantity : FnQuantities]

\* one roll and taste score for the four weathers, each at its ideal price
cups_sold_at_ideal_price_calls ==
    [fn : {"cups_sold_at_ideal_price"},
     cups_in_supplies : {R(100), R(10000)},
     tasteScore : {Q(5, 10), Q(7, 10), R(1), Q(12, 10)},
     random : {R(0), Q(1, 4), Q(1, 2), Q(3, 4), Q(99, 100)}]

calculate_cost_per_cup_calls ==
    [fn : {"calculate_cost_per_cup"}, game_state : FnFrameStates,
     recipe : [lemons : 0..MaxRecipeFn, sugar : 0..MaxRecipeFn,
               ice : {0, 1, 3, 4}]]

\* supply counts, a fractional one (left by a fractional sale) among them
FnSupplyCounts == {R(0), Q(5, 2), R(5), R(40)}

calculate_maximum_cups_available_calls ==
    [fn : {"calculate_maximum_cups_available"},
     supplies : [lemons : FnSupplyCounts, sugar : FnSupplyCounts,
                 ice : FnSupplyCounts, cups : FnSupplyCounts],
     recipe : [lemons : 0..MaxRecipeFn, sugar : 0..MaxRecipeFn,
               ice : 0..MaxRecipeFn]]

FnAmounts == {-1, 0, 1, 2, 3, 100}
FnIdeals == {0, 1, 2}

calculate_taste_score_calls ==
    [fn : {"calculate_taste_score"},
     lemons_per_cup : FnAmounts, sugar_per_cup : FnAmounts,
     ideal_lemons : FnIdeals, ideal_sugar : FnIdeals]

FnCalls ==
    make_lemonade_calls \cup calculate_cups_sold_calls
      \cup generateSalesAttempts_calls \cup set_weather_calls
      \cup set_price_per_cup_calls \cup set_recipe_calls \cup init_game_calls
      \cup calculate_supply_cost_calls \cup calculate_taste_score_calls
      \cup cups_sold_at_ideal_price_calls \cup calculate_cost_per_cup_calls
      \cup calculate_maximum_cups_available_calls

InitFn ==
    /\ gameState = init_game
    /\ isAnimating = FALSE
    /\ btnDisabled = FALSE
    /\ cups = [k \in 1..NumCups |-> FALSE]
    /\ makerFrame = 0
    /\ activeCustomer = setActiveCustomer(0, 0, R(0))
    /\ run = IdleRun
    /\ result = NoResult
    /\ clicks = 0
    /\ lastOp = "init"
    /\ call \in FnCalls
    /\ ret = NoRet

Apply_make_lemonade ==
    /\ call.fn = "make_lemonade"
    /\ ~ret.done
    /\ \E random \in Rolls :
         ret' = [done |-> TRUE, val |-> make_lemonade(call.game_state, random)]
    /\ UNCHANGED <<call, gameState, isAnimating, btnDisabled, cups, makerFrame,
                   activeCustomer, run, result, clicks, lastOp>>

Apply_calculate_cups_sold ==
    /\ call.fn = "calculate_cups_sold"
    /\ ~ret.done
    /\ ret' = [done |-> TRUE,
               val |-> calculate_cups_sold(call.price_per_cup,
                          call.cups_in_supplies, call.weather,
                          call.tasteScore, call.random)]
    /\ UNCHANGED <<call, gameState, isAnimating, btnDisabled, cups, makerFrame,
                   activeCustomer, run, result, clicks, lastOp>>

\* randoms are the values Math.random() returns in the shuffle; ret.swaps[i]
\* is the index j position i is swapped with
Apply_generateSalesAttempts ==
    /\ call.fn = "generateSalesAttempts"
    /\ ~ret.done
    /\ \E randoms \in
           [1..(Len(Unshuffled(call.maxCups, call.cupsSold)) - 1) -> Rolls] :
         ret' = [done |-> TRUE,
                 val |-> generateSalesAttempts(call.maxCups, call.cupsSold,
                                               randoms),
                 swaps |-> [i \in DOMAIN randoms |->
                              ShuffleIndex(i, randoms[i])]]
    /\ UNCHANGED <<call, gameState, isAnimating, btnDisabled, cups, makerFrame,
                   activeCustomer, run, result, clicks, lastOp>>

Apply_set_weather ==
    /\ call.fn = "set_weather"
    /\ ~ret.done
    /\ ret' = [done |-> TRUE, val |-> set_weather(call.game_state, call.random)]
    /\ UNCHANGED <<call, gameState, isAnimating, btnDisabled, cups, makerFrame,
                   activeCustomer, run, result, clicks, lastOp>>

Apply_set_price_per_cup ==
    /\ call.fn = "set_price_per_cup"
    /\ ~ret.done
    /\ ret' = [done |-> TRUE,
               val |-> set_price_per_cup(call.game_state, call.cost)]
    /\ UNCHANGED <<call, gameState, isAnimating, btnDisabled, cups, makerFrame,
                   activeCustomer, run, result, clicks, lastOp>>

Apply_set_recipe ==
    /\ call.fn = "set_recipe"
    /\ ~ret.done
    /\ ret' = [done |-> TRUE,
               val |-> set_recipe(call.game_state, call.lemons, call.sugar,
                                  call.ice)]
    /\ UNCHANGED <<call, gameState, isAnimating, btnDisabled, cups, makerFrame,
                   activeCustomer, run, result, clicks, lastOp>>

\* const a = init_game(); const b = init_game();
Apply_init_game ==
    /\ call.fn = "init_game"
    /\ ~ret.done
    /\ LET a == init_game_alloc(<<>>)
           b == init_game_alloc(a.heap)
       IN  ret' = [done |-> TRUE, heap |-> b.heap, a |-> a.ref, b |-> b.ref]
    /\ UNCHANGED <<call, gameState, isAnimating, btnDisabled, cups, makerFrame,
                   activeCustomer, run, result, clicks, lastOp>>

Apply_calculate_supply_cost ==
    /\ call.fn = "calculate_supply_cost"
    /\ ~ret.done
    /\ ret' = [done |-> TRUE,
               val |-> calculate_supply_cost(call.item, call.quantity)]
    /\ UNCHANGED <<call, gameState, isAnimating, btnDisabled, cups, makerFrame,
                   activeCustomer, run, result, clicks, lastOp>>

Apply_calculate_taste_score ==
    /\ call.fn = "calculate_taste_score"
    /\ ~ret.done
    /\ ret' = [done |-> TRUE,
               val |-> calculate_taste_score(call.lemons_per_cup,
                          call.sugar_per_cup, call.ideal_lemons,
                          call.ideal_sugar)]
    /\ UNCHANGED <<call, gameState, isAnimating, btnDisabled, cups, makerFrame,
                   activeCustomer, run, result, clicks, lastOp>>

\* calculate_cups_sold(IdealPrice[w], cups, w, taste, random) for each weather
Apply_cups_sold_at_ideal_price ==
    /\ call.fn = "cups_sold_at_ideal_price"
    /\ ~ret.done
    /\ ret' = [done |-> TRUE,
               val |-> [w \in Weather |->
                          calculate_cups_sold(IdealPrice[w],
                              call.cups_in_supplies, w, call.tasteScore,
                              call.random)]]
    /\ UNCHANGED <<call, gameState, isAnimating, btnDisabled, cups, makerFrame,
                   activeCustomer, run, result, clicks, lastOp>>

Apply_calculate_cost_per_cup ==
    /\ call.fn = "calculate_cost_per_cup"
    /\ ~ret.done
    /\ ret' = [done |-> TRUE,
               val |-> calculate_cost_per_cup(call.game_state, call.recipe)]
    /\ UNCHANGED <<call, gameState, isAnimating, btnDisabled, cups, makerFrame,
                   activeCustomer, run, result, clicks, lastOp>>

Apply_calculate_maximum_cups_available ==
    /\ call.fn = "calculate_maximum_cups_available"
    /\ ~ret.done
    /\ ret' = [done |-> TRUE,
               val |-> calculate_maximum_cups_available(call.supplies,
                                                        call.recipe)]
    /\ UNCHANGED <<call, gameState, isAnimating, btnDisabled, cups, makerFrame,
                   activeCustomer, run, result, clicks, lastOp>>

NextFn ==
    \/ Apply_make_lemonade
    \/ Apply_calculate_cups_sold
    \/ Apply_generateSalesAttempts
    \/ Apply_set_weather
    \/ Apply_set_price_per_cup
    \/ Apply_set_recipe
    \/ Apply_init_game
    \/ Apply_calculate_supply_cost
    \/ Apply_calculate_taste_score
    \/ Apply_cups_sold_at_ideal_price
    \/ Apply_calculate_cost_per_cup
    \/ Apply_calculate_maximum_cups_available

SpecFn == InitFn /\ [][NextFn]_vars

-----------------------------------------------------------------------------
(* Sequencer harness: one startDay run over an attempt sequence drawn from *)
(* all boolean sequences up to MaxAttempts, then its frames and timers     *)

MaxAttempts == 3

BoolSeqs(maxLen) ==
    UNION {[1..n -> BOOLEAN] : n \in 0..maxLen}

\* stocked states a day can start from
SeqStates ==
    {[init_game EXCEPT
        !.recipe = [lemons |-> 1, sugar |-> 1, ice |-> 0],
        !.supplies = [lemons |-> R(5), sugar |-> R(5), ice |-> R(0),
                      cups |-> R(5)],
        !.price_per_cup = Q(35, 100), !.weather = w] :
     w \in {"sunny", "cold"}}

animateSales_calls ==
    {[fn |-> "animateSales", attempts |-> a, game_state |-> st, random |-> r] :
     a \in BoolSeqs(MaxAttempts), st \in SeqStates, r \in Rolls}

InitSeq ==
    /\ call \in animateSales_calls
    /\ gameState = call.game_state
    /\ isAnimating = FALSE
    /\ btnDisabled = FALSE
    /\ cups = [k \in 1..NumCups |-> FALSE]
    /\ makerFrame = 0
    /\ activeCustomer = setActiveCustomer(0, 0, R(0))
    /\ run = IdleRun
    /\ result = NoResult
    /\ clicks = 0
    /\ lastOp = "init"
    /\ ret = NoRet

\* startDay past its guards, with the attempt sequence of the call in place
\* of generateSalesAttempts' value
Apply_animateSales ==
    /\ call.fn = "animateSales"
    /\ ~ret.done
    /\ ret' = [done |-> TRUE]
    /\ cups' = fillAllCups
    /\ animateSales(call.attempts,
                    make_lemonade(call.game_state, call.random))
    /\ UNCHANGED <<call, clicks>>

NextSeq ==
    \/ Apply_animateSales
    \/ \E dt \in FrameMs : Frame(dt)
    \/ Timer

\* the browser runs every pending animation frame and timer
SpecSeq ==
    /\ InitSeq /\ [][NextSeq]_vars
    /\ WF_vars(\E dt \in FrameMs : Frame(dt))
    /\ WF_vars(Timer)

-----------------------------------------------------------------------------
(* Cup harness: one startDay run over every attempt sequence of            *)
(* MaxLongAttempts attempts, long enough for the cup index to wrap around  *)

MaxLongAttempts == 6

\* days that start with fewer and with more cups in supply than cup visuals
CupStates ==
    {[init_game EXCEPT
        !.recipe = [lemons |-> 1, sugar |-> 0, ice |-> 0],
        !.supplies = [lemons |-> R(40), sugar |-> R(0), ice |-> R(0),
                      cups |-> c],
        !.price_per_cup = Q(35, 100)] : c \in {R(1), R(40)}}

animateSales_long_calls ==
    {[fn |-> "animateSales", attempts |-> a, game_state |-> st,
      random |-> Q(1, 2)] :
     a \in [1..MaxLongAttempts -> BOOLEAN], st \in CupStates}

InitCups ==
    /\ call \in animateSales_long_calls
    /\ gameState = call.game_state
    /\ isAnimating = FALSE
    /\ btnDisabled = FALSE
    /\ cups = [k \in 1..NumCups |-> FALSE]
    /\ makerFrame = 0
    /\ activeCustomer = setActiveCustomer(0, 0, R(0))
    /\ run = IdleRun
    /\ result = NoResult
    /\ clicks = 0
    /\ lastOp = "init"
    /\ ret = NoRet

SpecCups == InitCups /\ [][NextSeq]_vars

-----------------------------------------------------------------------------
(* Shop harness: one click of a buy button, for a purse and a quantity     *)
(* drawn from sets with purchases below, at and above the money at hand     *)

\* player_money at the click: nothing, five cents, the starting money
ShopMoney == {R(0), Q(5, 100), R(2)}

\* quantities typed into the shop: negative, none, and quantities costing
\* less than, exactly and more than five cents, in the first and last tiers
ShopQtys == {-1, 0, 1, 3, 5, 101}

ShopStates ==
    {[st EXCEPT !.player_money = m] : st \in FnFrameStates, m \in ShopMoney}

shopBuy_calls ==
    [fn : {"shopBuy"}, game_state : ShopStates, item : SupplyTypes,
     qty : ShopQtys]

InitShop ==
    /\ call \in shopBuy_calls
    /\ gameState = call.game_state
    /\ isAnimating = FALSE
    /\ btnDisabled = FALSE
    /\ cups = [k \in 1..NumCups |-> FALSE]
    /\ makerFrame = 0
    /\ activeCustomer = setActiveCustomer(0, 0, R(0))
    /\ run = IdleRun
    /\ result = NoResult
    /\ clicks = 0
    /\ lastOp = "init"
    /\ ret = NoRet

Apply_shopBuy ==
    /\ call.fn = "shopBuy"
    /\ ~ret.done
    /\ ret' = [done |-> TRUE]
    /\ shopBuy(call.item, call.qty)
    /\ UNCHANGED <<call, isAnimating, btnDisabled, cups, makerFrame,
                   activeCustomer, run, result, clicks>>

NextShop == Apply_shopBuy

SpecShop == InitShop /\ [][NextShop]_vars

-----------------------------------------------------------------------------
(* Claims                                                                  *)

\* a make_lemonade call has returned; its input state and returned state
MadeLemonade == call.fn = "make_lemonade" /\ ret.done

\* C1: make_lemonade on a state with recipe.lemons > 0 returns supplies equal
\* to the supplies before minus recipe amount times the returned cups_sold,
\* and supplies.cups equal to the cups before minus cups_sold.
C1_SuppliesReduced ==
    (MadeLemonade /\ call.game_state.recipe.lemons > 0) =>
        LET before == call.game_state
            after == ret.val
            sold == after.cups_sold
        IN  /\ after.supplies.lemons =
                 RSub(before.supplies.lemons, RMul(R(before.recipe.lemons), sold))
            /\ after.supplies.sugar =
                 RSub(before.supplies.sugar, RMul(R(before.recipe.sugar), sold))
            /\ after.supplies.ice =
                 RSub(before.supplies.ice, RMul(R(before.recipe.ice), sold))
            /\ after.supplies.cups = RSub(before.supplies.cups, sold)

\* a day that sold cups from a recipe using all three ingredients
C1_Witness ==
    /\ MadeLemonade
    /\ call.game_state.recipe.lemons > 0
    /\ call.game_state.recipe.sugar > 0
    /\ call.game_state.recipe.ice > 0
    /\ RLt(R(0), ret.val.cups_sold)

\* C2: make_lemonade on a state with recipe.lemons > 0 raises player_money and
\* total_earnings each by exactly price_per_cup * cups_sold, so that
\* total_earnings accumulates on top of the earnings of earlier days.
C2_EarningsAdded ==
    (MadeLemonade /\ call.game_state.recipe.lemons > 0) =>
        LET before == call.game_state
            after == ret.val
            gain == RMul(before.price_per_cup, after.cups_sold)
        IN  /\ after.player_money = RAdd(before.player_money, gain)
            /\ after.total_earnings = RAdd(before.total_earnings, gain)

\* a selling day on top of earlier earnings
C2_Witness ==
    /\ MadeLemonade
    /\ call.game_state.recipe.lemons > 0
    /\ RLt(R(0), call.game_state.total_earnings)
    /\ RLt(R(1), ret.val.cups_sold)
    /\ RLt(call.game_state.total_earnings, ret.val.total_earnings)

\* C3: make_lemonade on a state whose recipe.lemons is 0 returns cups_sold = 0
\* and every other field equal to the input, whatever the supplies, price and
\* weather are.
C3_NoLemonsNoSales ==
    (MadeLemonade /\ call.game_state.recipe.lemons = 0) =>
        /\ ret.val.cups_sold = R(0)
        /\ \A f \in DOMAIN ret.val \ {"cups_sold"} :
              ret.val[f] = call.game_state[f]

\* a lemon-free recipe on a stocked stand that had sold cups the day before
C3_Witness ==
    /\ MadeLemonade
    /\ call.game_state.recipe.lemons = 0
    /\ call.game_state.recipe.sugar > 0
    /\ call.game_state.supplies.cups = R(40)
    /\ call.game_state.supplies.sugar = R(40)
    /\ call.game_state.price_per_cup = Q(35, 100)
    /\ call.game_state.cups_sold = R(3)

\* C4 (the claim as stated): calculate_cups_sold returns an integer r with
\* 0 <= r <= floor(cupsAvailable) for every price >= 0, cupsAvailable >= 0,
\* weather, taste score in [0.5, 1.2] and roll in [0, 1).
C4_IntegerWithinCups ==
    (call.fn = "calculate_cups_sold" /\ ret.done
       /\ RLe(R(0), call.cups_in_supplies)) =>
        /\ IsInteger(ret.val)
        /\ RLe(R(0), ret.val)
        /\ RLe(ret.val, MathFloor(call.cups_in_supplies))

\* C5 (the claim as stated): after make_lemonade on a state with non-negative
\* integer supplies and non-negative integer recipe amounts with lemons >= 1,
\* cups_sold and all four supply counts are non-negative integers.
C5_IntegerCounts ==
    (MadeLemonade /\ call.game_state.recipe.lemons >= 1) =>
        /\ IsInteger(ret.val.cups_sold) /\ RLe(R(0), ret.val.cups_sold)
        /\ \A item \in SupplyTypes :
              /\ IsInteger(ret.val.supplies[item])
              /\ RLe(R(0), ret.val.supplies[item])

\* C6 (the claim as stated): in every state reachable from init_game by shop
\* purchases of any integer quantity, recipe saves, price saves and day runs,
\* each of the four supply counts is >= 0.
C6_SuppliesNonNegative ==
    \A item \in SupplyTypes : RLe(R(0), gameState.supplies[item])

\* C7 (the claim as stated): no game state holds a negative recipe amount; a
\* negative amount fed to the recipe-save handler is rejected.
C7_RecipeNonNegative ==
    /\ gameState.recipe.lemons >= 0
    /\ gameState.recipe.sugar >= 0
    /\ gameState.recipe.ice >= 0

\* C8 (the claim as stated): no state with a negative price_per_cup is
\* committed by the price-save handler; a negative cost is rejected.
C8_PriceNonNegative == RLe(R(0), gameState.price_per_cup)

\* lastOp values of the branches of the startDay handler
StartDayOps ==
    {"startDay", "startDay_complete", "startDay_throw", "startDay_busy",
     "startDay_no_cups", "startDay_no_lemons"}

\* the step is a start-day request
StartDayStep == clicks' = clicks + 1 /\ lastOp' \in StartDayOps

\* C9: a start-day request that arrives while the busy flag isAnimating is set
\* starts no second run, computes no second make_lemonade result, and changes
\* neither the game state nor the running run's attempt index, cup index or
\* slot index (nor the busy flag or any visual).
C9_BusyStartIgnored ==
    [][(isAnimating /\ StartDayStep) =>
          UNCHANGED <<gameState, isAnimating, btnDisabled, cups, makerFrame,
                      activeCustomer, run, result>>]_vars

\* a start-day request has just been dropped by the busy flag during a run
\* that has got to its second attempt
C9_Witness ==
    /\ lastOp = "startDay_busy"
    /\ isAnimating
    /\ run.phase # "idle"
    /\ run.i >= 1

\* C10: within a sequencer run the attempt index starts at 0, increases by
\* exactly 1 and only on the step that ends the current attempt's fade-out,
\* so it always equals the number of fade-outs completed; a fade-in starts
\* only at the start of the run or on the step that ends a fade-out.
C10_StrictlySequential ==
    [][(run'.phase # "idle") =>
          /\ run'.i = run'.fadedOut
          /\ run'.i < Len(run'.attempts)
          /\ (run.phase = "idle") =>
                (run'.i = 0 /\ run'.phase = "fade_in")
          /\ (run.phase # "idle") =>
                /\ run'.attempts = run.attempts
                /\ run'.i \in {run.i, run.i + 1}
                /\ (run'.i = run.i + 1) =>
                      (run.phase = "fade_out" /\ run'.phase = "fade_in"
                       /\ run'.elapsed = 0)
                /\ (run'.phase = "fade_in" /\ run.phase # "fade_in") =>
                      (run.phase = "fade_out" /\ run'.i = run.i + 1)
                /\ (run.phase = "fade_out" /\ run'.phase # "fade_out") =>
                      run'.i = run.i + 1]_vars

\* the third attempt of a run is fading in after two completed fade-outs
C10_Witness ==
    /\ run.phase = "fade_in"
    /\ run.i = 2
    /\ run.fadedOut = 2

\* lastOp values of the steps that run the completion callback
CompleteOps == {"complete", "startDay_complete"}

\* C11: for every attempt sequence (the empty one included) a sequencer run
\* invokes its completion callback exactly once: once animateSales has been
\* called the callback is eventually invoked, nothing of the run happens
\* after it, it is invoked only on the
\* step that ends the fade-out of the last attempt (at once for the empty
\* sequence), and at that moment the active customer is cleared (null key,
\* alpha 0) and the vendor frame is 0.
C11_CompletesOnce ==
    /\ ret.done ~> (lastOp \in CompleteOps)
    /\ [][/\ lastOp \notin CompleteOps
          /\ (lastOp' = "startDay_complete") => Len(call.attempts) = 0
          /\ (lastOp' = "complete") =>
                /\ run.phase = "fade_out"
                /\ run.attempts = call.attempts
                /\ run.i + 1 = Len(call.attempts)
                /\ run.fadedOut = run.i
          /\ (lastOp' \in CompleteOps) =>
                /\ activeCustomer' = setActiveCustomer(0, 0, R(0))
                /\ makerFrame' = 0
                /\ run'.phase = "idle"
                /\ ~isAnimating']_vars

\* the callback has run after a sequence of MaxAttempts attempts holding both
\* a buy and a pass
C11_Witness ==
    /\ lastOp = "complete"
    /\ Len(call.attempts) = MaxAttempts
    /\ \E k \in DOMAIN call.attempts : call.attempts[k]
    /\ \E k \in DOMAIN call.attempts : ~call.attempts[k]
    /\ activeCustomer = setActiveCustomer(0, 0, R(0))
    /\ makerFrame = 0

\* lastOp values of the sequencer's steps other than the completion
SequencerOps ==
    {"frame", "fade_in_done_buy", "fade_in_done_pass", "next_attempt",
     "timer_buy", "timer_pass"}

\* the fields of a day's result a completion commits as they are
CommittedFields ==
    {"player_money", "supplies", "cups_sold", "total_earnings", "recipe",
     "price_per_cup", "cost_per_cup", "current_day"}

\* the step commits day, leaves a rolled weather and clears the busy flag
CommitsDay(day) ==
    /\ \A f \in CommittedFields : gameState'[f] = day[f]
    /\ \E weatherRandom \in WeatherRolls :
          gameState'.weather = set_weather(day, weatherRandom).weather
    /\ ~isAnimating'
    /\ result' = NoResult

\* C12: the day's result is committed and the weather re-rolled only in the
\* completion callback, once per run: the completion step leaves the fields
\* of the run's result in the game state, then a rolled weather, then the
\* busy flag clear, and no result pending; no sequencer step (fade, timer,
\* cup or vendor update) changes the game state, the pending result or the
\* busy flag; cups_sold, total_earnings and weather change on no other step.
C12_CommitOnlyOnComplete ==
    [][/\ (lastOp' \in SequencerOps) =>
             UNCHANGED <<gameState, result, isAnimating>>
       /\ (lastOp' = "complete") => (isAnimating /\ CommitsDay(result))
       /\ (lastOp' = "startDay_complete") =>
             \E random \in Rolls : CommitsDay(make_lemonade(gameState, random))
       /\ (\/ gameState'.cups_sold # gameState.cups_sold
           \/ gameState'.total_earnings # gameState.total_earnings
           \/ gameState'.weather # gameState.weather
           \/ isAnimating /\ ~isAnimating') => lastOp' \in CompleteOps]_vars

\* a run has just completed: its sales are in the game state, the weather
\* rolled is not the day's weather, the busy flag is clear
C12_Witness ==
    /\ lastOp = "complete"
    /\ RLt(R(0), gameState.cups_sold)
    /\ RLt(R(0), gameState.total_earnings)
    /\ gameState.weather = "hot"
    /\ ~isAnimating
    /\ result = NoResult

\* the number of true entries of an attempt sequence
Buys(attempts) == Cardinality({k \in DOMAIN attempts : attempts[k]})

\* C13 (the claim as stated): generateSalesAttempts(maxCups, cupsSold) returns
\* exactly maxCups booleans of which exactly min(cupsSold, maxCups) are true,
\* for every maxCups >= 0 and cupsSold >= 0, cupsSold > maxCups and
\* non-integer cupsSold included.
C13_MaxCupsBooleans ==
    (call.fn = "generateSalesAttempts" /\ ret.done) =>
        /\ Len(ret.val) = call.maxCups
        /\ R(Buys(ret.val)) = Min2(call.cupsSold, R(call.maxCups))

\* the supplies are non-negative integers, the recipe, of non-negative
\* amounts, uses a lemon, and the price is not negative
DayStartable(state) ==
    /\ \A item \in SupplyTypes :
          IsInteger(state.supplies[item]) /\ RLe(R(0), state.supplies[item])
    /\ state.recipe.lemons >= 1
    /\ state.recipe.sugar >= 0
    /\ state.recipe.ice >= 0
    /\ RLe(R(0), state.price_per_cup)

\* C14 (the claim as stated): for every day started from a state with
\* non-negative integer supplies and recipe.lemons >= 1, the attempt sequence
\* handed to the sequencer has length calculate_maximum_cups_available of
\* that state and as many true entries as the cups_sold the day commits.
C14_AttemptsMatchDay ==
    [][(lastOp' = "startDay" /\ clicks' = clicks + 1 /\ DayStartable(gameState)) =>
          /\ R(Len(run'.attempts)) =
                calculate_maximum_cups_available(gameState.supplies,
                                                 gameState.recipe)
          /\ R(Buys(run'.attempts)) = result'.cups_sold]_vars

\* C15: set_weather maps a roll r to CLOUDY for 0 <= r < 0.40, SUNNY for
\* 0.40 <= r < 0.75, HOT for 0.75 <= r < 0.90, COLD for 0.90 <= r < 1 and
\* SUNNY for r = 1 (the walk over CLOUDY 40, SUNNY 35, HOT 15, COLD 10 of the
\* roll scaled by the total weight 100, with its fallback).
C15_WeatherBands ==
    (call.fn = "set_weather" /\ ret.done) =>
        LET r == call.random
        IN  ret.val.weather =
              IF RLt(r, Q(40, 100)) THEN "cloudy"
              ELSE IF RLt(r, Q(75, 100)) THEN "sunny"
              ELSE IF RLt(r, Q(90, 100)) THEN "hot"
              ELSE IF RLt(r, R(1)) THEN "cold"
              ELSE "sunny"

\* the roll 1.0 has fallen through every band to the fallback
C15_Witness ==
    /\ call.fn = "set_weather"
    /\ ret.done
    /\ call.random = R(1)
    /\ call.game_state.weather = "hot"
    /\ ret.val.weather = "sunny"

\* C16: in every state reachable from init_game by any operations and
\* completed days, with any roll in [0, 1] given to set_weather, weather is
\* one of COLD, CLOUDY, SUNNY, HOT.
C16_WeatherIsEnum == gameState.weather \in Weather

\* a day has completed and its weather roll, at the top of the range, has
\* left COLD
C16_Witness ==
    /\ lastOp \in CompleteOps
    /\ gameState.weather = "cold"
    /\ RLt(R(0), gameState.cups_sold)

\* C17: for every cost >= 0, set_price_per_cup leaves a price_per_cup that is
\* a whole number of cents and differs from cost by at most half a cent.
C17_RoundedToCents ==
    (call.fn = "set_price_per_cup" /\ ret.done /\ RLe(R(0), call.cost)) =>
        LET price == ret.val.price_per_cup
        IN  /\ IsInteger(RMul(price, R(100)))
            /\ RLe(RSub(price, call.cost), Q(5, 1000))
            /\ RLe(RSub(call.cost, price), Q(5, 1000))

\* a cost half way between two cents has been rounded up to 1.24
C17_Witness ==
    /\ call.fn = "set_price_per_cup"
    /\ ret.done
    /\ call.cost = Q(1235, 1000)
    /\ ret.val.price_per_cup = Q(124, 100)

\* C18: set_price_per_cup returns a state in which every field other than
\* price_per_cup equals the input state's, and the input state is the same
\* after the call as before it.
C18_PriceFrame ==
    [][(call.fn = "set_price_per_cup" /\ ret'.done) =>
          /\ call' = call
          /\ DOMAIN ret'.val = DOMAIN call.game_state
          /\ \A f \in DOMAIN call.game_state \ {"price_per_cup"} :
                ret'.val[f] = call.game_state[f]]_vars

\* the price of a state in the middle of a game has been changed
C18_Witness ==
    /\ call.fn = "set_price_per_cup"
    /\ ret.done
    /\ call.game_state.cups_sold = R(3)
    /\ call.game_state.price_per_cup = Q(35, 100)
    /\ ret.val.price_per_cup = Q(99, 100)

\* C19: set_recipe(state, l, s, i) returns a state whose recipe is exactly
\* {lemons: l, sugar: s, ice: i} and whose other fields, supplies included,
\* equal the input state's; the input state is the same after the call as
\* before it.
C19_RecipeFrame ==
    [][(call.fn = "set_recipe" /\ ret'.done) =>
          /\ call' = call
          /\ ret'.val.recipe =
                [lemons |-> call.lemons, sugar |-> call.sugar, ice |-> call.ice]
          /\ DOMAIN ret'.val = DOMAIN call.game_state
          /\ \A f \in DOMAIN call.game_state \ {"recipe"} :
                ret'.val[f] = call.game_state[f]]_vars

\* every amount of the recipe of a stocked state has been replaced
C19_Witness ==
    /\ call.fn = "set_recipe"
    /\ ret.done
    /\ call.game_state.recipe = [lemons |-> 1, sugar |-> 2, ice |-> 1]
    /\ ret.val.recipe = [lemons |-> 2, sugar |-> 1, ice |-> 0]
    /\ ret.val.supplies.sugar = R(40)

\* C20: init_game returns player_money 2.00, price_per_cup 1.00, current_day
\* 1, cups_sold 0, total_earnings 0, every recipe amount and supply count 0
\* and weather SUNNY; the states of two calls are different objects with
\* different recipe and supplies records.
C20_DefaultsUnshared ==
    (call.fn = "init_game" /\ ret.done) =>
        LET a == ret.heap[ret.a]
            b == ret.heap[ret.b]
        IN  /\ \A s \in {a, b} :
                  /\ s.player_money = R(2)
                  /\ s.price_per_cup = R(1)
                  /\ s.current_day = 1
                  /\ s.cups_sold = R(0)
                  /\ s.total_earnings = R(0)
                  /\ s.weather = "sunny"
                  /\ ret.heap[s.recipe] =
                        [lemons |-> 0, sugar |-> 0, ice |-> 0]
                  /\ ret.heap[s.supplies] =
                        [lemons |-> R(0), sugar |-> R(0), ice |-> R(0),
                         cups |-> R(0)]
            /\ ret.a # ret.b
            /\ a.recipe # b.recipe
            /\ a.supplies # b.supplies
            /\ {a.recipe, b.recipe} \cap {a.supplies, b.supplies} = {}

\* init_game has been called twice
C20_Witness ==
    /\ call.fn = "init_game"
    /\ ret.done
    /\ Len(ret.heap) = 6
    /\ ret.heap[ret.b].cost_per_cup = R(0)

\* a calculate_supply_cost call has returned
PricedSupply == call.fn = "calculate_supply_cost" /\ ret.done

\* the tiers of the table whose [min, max] holds quantity
MatchingTiers(item, quantity) ==
    {k \in 1..Len(SupplyPricing[item]) :
        /\ SupplyPricing[item][k].min <= quantity
        /\ SupplyPricing[item][k].max = -1
              \/ quantity <= SupplyPricing[item][k].max}

\* C21: calculate_supply_cost(item, q) is 0 for q <= 0 and, for an integer
\* q >= 1 and each of the four items, q times the unit price of the tier
\* whose [min, max] holds q, rounded to cents: lemons 50 -> 1.00,
\* 51 -> 0.92, 101 -> 1.52, ice 300 -> 2.70, cups 200 -> 1.80.
C21_TieredCost ==
    PricedSupply =>
        LET q == call.quantity
            item == call.item
        IN  /\ (q <= 0) => ret.val = R(0)
            /\ (q >= 1) =>
                  \E k \in MatchingTiers(item, q) :
                     LET exact == RMul(R(q), SupplyPricing[item][k].price)
                     IN  /\ IsInteger(RMul(ret.val, R(100)))
                         /\ RLe(RSub(ret.val, exact), Q(5, 1000))
                         /\ RLe(RSub(exact, ret.val), Q(5, 1000))
            /\ (item = "lemons" /\ q = 50) => ret.val = R(1)
            /\ (item = "lemons" /\ q = 51) => ret.val = Q(92, 100)
            /\ (item = "lemons" /\ q = 101) => ret.val = Q(152, 100)
            /\ (item = "ice" /\ q = 300) => ret.val = Q(270, 100)
            /\ (item = "cups" /\ q = 200) => ret.val = Q(180, 100)

\* 51 lemons have been priced in the second tier, 0.918 rounding to 0.92
C21_Witness ==
    /\ PricedSupply
    /\ call.item = "lemons"
    /\ call.quantity = 51
    /\ ret.val = Q(92, 100)

\* C22: for each item and every integer quantity q >= 1 exactly one tier
\* has min <= q <= max: the first tier starts at 1, each later tier starts
\* right after the end of the one before, and only the last tier is
\* unbounded.
C22_OneTierMatches ==
    PricedSupply =>
        LET tiers == SupplyPricing[call.item]
        IN  /\ (call.quantity >= 1) =>
                  Cardinality(MatchingTiers(call.item, call.quantity)) = 1
            /\ tiers[1].min = 1
            /\ \A k \in 1..(Len(tiers) - 1) :
                  /\ tiers[k].max >= tiers[k].min
                  /\ tiers[k + 1].min = tiers[k].max + 1
            /\ tiers[Len(tiers)].max = -1

\* a quantity at the start of a second tier has been priced there
C22_Witness ==
    /\ PricedSupply
    /\ call.item = "cups"
    /\ call.quantity = 101
    /\ MatchingTiers("cups", 101) = {2}
    /\ ret.val = Q(91, 100)

\* C23: calculate_taste_score(l, s, il, is) is 1.2 when l = il and s = is and
\* otherwise 1.0 - (0.3*|l - il| + 0.2*|s - is|) clamped to [0.5, 1.2]; the
\* result is always in [0.5, 1.2], and 1.2 only for an exact match.
C23_TasteScore ==
    (call.fn = "calculate_taste_score" /\ ret.done) =>
        LET dl == Abs(call.lemons_per_cup - call.ideal_lemons)
            ds == Abs(call.sugar_per_cup - call.ideal_sugar)
            raw == RSub(R(1), RAdd(RMul(Q(3, 10), R(dl)), RMul(Q(2, 10), R(ds))))
            match == dl = 0 /\ ds = 0
        IN  /\ match => ret.val = Q(12, 10)
            /\ ~match =>
                  ret.val = IF RLt(raw, Q(5, 10)) THEN Q(5, 10)
                            ELSE IF RLt(Q(12, 10), raw) THEN Q(12, 10)
                            ELSE raw
            /\ RLe(Q(5, 10), ret.val) /\ RLe(ret.val, Q(12, 10))
            /\ (ret.val = Q(12, 10)) => match

\* a recipe one lemon over the ideal has scored 0.7
C23_Witness ==
    /\ call.fn = "calculate_taste_score"
    /\ ret.done
    /\ call.lemons_per_cup = 2 /\ call.ideal_lemons = 1
    /\ call.sugar_per_cup = 1 /\ call.ideal_sugar = 1
    /\ ret.val = Q(7, 10)

\* C24 (the claim as stated): calculate_cups_sold equals
\* min(floor(30 * weatherFactor * max(0, 1 - (price - idealPrice) * 1.5)
\*           * tasteScore * (0.9 + roll * 0.2)), cupsAvailable)
\* with the factor and the ideal price of the weather, and it returns 0 for
\* every price >= idealPrice + 2/3, whatever the other inputs are.
C24_DemandFormula ==
    (call.fn = "calculate_cups_sold" /\ ret.done) =>
        LET weatherFactor == WeatherFactor[call.weather]
            idealPrice == IdealPrice[call.weather]
            slope == RSub(R(1), RMul(RSub(call.price_per_cup, idealPrice),
                                     Q(15, 10)))
            effect == IF RLt(slope, R(0)) THEN R(0) ELSE slope
            noise == RAdd(Q(9, 10), RMul(call.random, Q(2, 10)))
            demand == RMul(RMul(RMul(RMul(R(30), weatherFactor), effect),
                                call.tasteScore), noise)
        IN  /\ ret.val = Min2(MathFloor(demand), call.cups_in_supplies)
            /\ RLe(RAdd(idealPrice, Q(2, 3)), call.price_per_cup) =>
                  ret.val = R(0)

\* C25: with each weather at its own ideal price, one taste score in
\* [0.5, 1.2], one roll in [0, 1) and one cupsAvailable above every demand,
\* sold(HOT) >= sold(SUNNY) >= sold(CLOUDY) >= sold(COLD).
C25_WeatherOrdering ==
    (call.fn = "cups_sold_at_ideal_price" /\ ret.done) =>
        /\ RLe(ret.val["sunny"], ret.val["hot"])
        /\ RLe(ret.val["cloudy"], ret.val["sunny"])
        /\ RLe(ret.val["cold"], ret.val["cloudy"])

\* the test's inputs (taste 1, roll 0.5, 10000 cups) have given four
\* different sales figures
C25_Witness ==
    /\ call.fn = "cups_sold_at_ideal_price"
    /\ ret.done
    /\ call.tasteScore = R(1)
    /\ call.random = Q(1, 2)
    /\ call.cups_in_supplies = R(10000)
    /\ ret.val["hot"] = R(42)
    /\ ret.val["sunny"] = R(30)
    /\ ret.val["cloudy"] = R(24)
    /\ ret.val["cold"] = R(15)

CupTerms(supplies, recipe) ==
    {supplies.cups} \cup
    {RDivInt(supplies[f], recipe[f]) :
        f \in {g \in {"lemons", "sugar", "ice"} : recipe[g] # 0}}

\* C27: calculate_maximum_cups_available(supplies, recipe) is 0 when
\* recipe.lemons = 0 and otherwise the floor of the minimum of
\* supplies.lemons/recipe.lemons, supplies.sugar/recipe.sugar,
\* supplies.ice/recipe.ice and supplies.cups, a term with recipe amount 0
\* counting as unbounded; for non-negative supplies the result is a
\* non-negative integer not above supplies.cups.
C27_MaximumCups ==
    (call.fn = "calculate_maximum_cups_available" /\ ret.done) =>
        LET terms == CupTerms(call.supplies, call.recipe)
            least == CHOOSE t \in terms : \A u \in terms : RLe(t, u)
        IN  /\ (call.recipe.lemons = 0) => ret.val = R(0)
            /\ (call.recipe.lemons # 0) => ret.val = MathFloor(least)
            /\ IsInteger(ret.val)
            /\ RLe(R(0), ret.val)
            /\ RLe(ret.val, call.supplies.cups)

\* 5 lemons at 2 a cup bound the day to floor(2.5) = 2 cups; the recipe uses
\* no ice and there is none
C27_Witness ==
    /\ call.fn = "calculate_maximum_cups_available"
    /\ ret.done
    /\ call.recipe = [lemons |-> 2, sugar |-> 1, ice |-> 0]
    /\ call.supplies = [lemons |-> R(5), sugar |-> R(40), ice |-> R(0),
                         cups |-> R(40)]
    /\ ret.val = R(2)

\* the cups with cup k (counted from 0) set to filled or emptied
WithCup(cs, k, filled) == [j \in DOMAIN cs |-> IF j = k + 1 THEN filled ELSE cs[j]]

\* C28: each attempt of a run passes through its phases in this order only:
\* customer fade-in; then, for a buy, vendor active and the current cup
\* emptied, a pause, the cup refilled and the vendor idle, or, for a pass, a
\* pause with no cup or vendor change; then customer fade-out; then the next
\* attempt or completion.  The vendor frame is active only between a buy's
\* cup-empty step and its refill.
C28_AttemptPhases ==
    [][/\ (makerFrame' = 1) <=> (run'.phase = "buy_wait")
       /\ (run.phase = "idle") => run'.phase \in {"idle", "fade_in"}
       /\ (run.phase = "fade_in") =>
             /\ run'.phase \in {"fade_in", "buy_wait", "pass_wait"}
             /\ run'.i = run.i
             /\ (run'.phase = "fade_in") => UNCHANGED <<cups, makerFrame>>
             /\ (run'.phase = "buy_wait") =>
                   /\ run.attempts[run.i + 1]
                   /\ activeCustomer'.alpha = R(1)
                   /\ makerFrame = 0 /\ makerFrame' = 1
                   /\ cups[run.cupIndex + 1]
                   /\ cups' = WithCup(cups, run.cupIndex, FALSE)
             /\ (run'.phase = "pass_wait") =>
                   /\ ~run.attempts[run.i + 1]
                   /\ activeCustomer'.alpha = R(1)
                   /\ UNCHANGED <<cups, makerFrame>>
       /\ (run.phase = "buy_wait") =>
             /\ run'.phase = "fade_out"
             /\ run'.i = run.i
             /\ makerFrame' = 0
             /\ cups' = WithCup(cups, run.cupIndex, TRUE)
       /\ (run.phase = "pass_wait") =>
             /\ run'.phase = "fade_out"
             /\ run'.i = run.i
             /\ UNCHANGED <<cups, makerFrame>>
       /\ (run.phase = "fade_out") =>
             /\ run'.phase \in {"fade_out", "fade_in", "idle"}
             /\ UNCHANGED <<cups, makerFrame>>
             /\ (run'.phase = "fade_out") => run'.i = run.i
             /\ (run'.phase = "fade_in") =>
                   /\ activeCustomer'.alpha = R(0)
                   /\ run'.i = run.i + 1
                   /\ run'.i < Len(run.attempts)
             /\ (run'.phase = "idle") =>
                   (run.i + 1 = Len(run.attempts) /\ lastOp' = "complete")]_vars

\* the refill of a buy that follows a pass has just started the fade-out
C28_Witness ==
    /\ lastOp = "timer_buy"
    /\ run.phase = "fade_out"
    /\ run.i = 1
    /\ ~run.attempts[1]
    /\ run.attempts[2]
    /\ makerFrame = 0
    /\ \A k \in DOMAIN cups : cups[k]

\* C29: within a run the customer slot index is always 0 or 1, it stays the
\* same during an attempt and differs between any two consecutive attempts,
\* buys or passes, and the first attempt of every run uses the same slot
\* (slot 1); the customer shown is in the slot of the attempt.
C29_SlotsAlternate ==
    [][(run'.phase # "idle") =>
          /\ run'.posIndex \in {0, 1}
          /\ activeCustomer'.positionIndex = run'.posIndex
          /\ (run.phase = "idle") => run'.posIndex = 1
          /\ (run.phase # "idle" /\ run'.i = run.i) =>
                run'.posIndex = run.posIndex
          /\ (run.phase # "idle" /\ run'.i # run.i) =>
                run'.posIndex # run.posIndex]_vars

\* in the run of a second day (the weather has been rolled to HOT) the third
\* attempt is back in slot 1, the slot of the first
C29_Witness ==
    /\ run.phase # "idle"
    /\ gameState.weather = "hot"
    /\ run.i = 2
    /\ run.posIndex = 1
    /\ activeCustomer.positionIndex = 1

\* the number of buys among the first n attempts
BuysBefore(attempts, n) ==
    Cardinality({k \in 1..n : attempts[k]})

\* C30: within a run the cup index stays in 0..3; the k-th buy attempt
\* (counting from 0) empties and refills cup k mod 4, every other cup staying
\* filled; pass attempts do not advance the cup index; the cup is determined
\* by the attempts alone, not by the supply counters of the game state.
C30_CupRoundRobin ==
    (run.phase # "idle") =>
        LET done == IF run.phase = "fade_out" THEN run.i + 1 ELSE run.i
        IN  /\ run.cupIndex \in 0..3
            /\ run.cupIndex = BuysBefore(run.attempts, done) % 4
            /\ \A j \in 0..3 :
                  cups[j + 1] <=>
                     ~(run.phase = "buy_wait"
                       /\ j = BuysBefore(run.attempts, run.i) % 4)

\* the fifth buy of a run, after a pass, has emptied cup 0 again, on a day
\* that started with a single cup in supply
C30_Witness ==
    /\ run.phase = "buy_wait"
    /\ run.i = 5
    /\ BuysBefore(run.attempts, 5) = 4
    /\ run.cupIndex = 0
    /\ ~cups[1]
    /\ gameState.supplies.cups = R(1)

\* the phases in which a fade of the active customer is in progress
FadePhases == {"fade_in", "fade_out"}

\* C31: a fade from alpha a to alpha b (0 to 1 fading in, 1 to 0 fading out)
\* shows alpha a + (b - a) * min(elapsed / 500, 1); while it is scheduled
\* again its progress is below 1 and its elapsed time grows; the step that
\* ends it runs the completion callback with alpha b shown (for a fade-in
\* at an elapsed time of at least 500 ms, for a fade-out counted as shown at
\* progress 1), and that step leaves the fade, so the callback runs once;
\* the alpha is within [0, 1] in every state; when frames keep firing no
\* fade lasts for ever: a state with no fade in progress (a pause after a
\* fade-in, or the end of the run) is reached again and again.
C31_FadeInterpolates ==
    /\ [](/\ RLe(R(0), activeCustomer.alpha)
          /\ RLe(activeCustomer.alpha, R(1))
          /\ (run.phase \in FadePhases) =>
                LET a == IF run.phase = "fade_in" THEN 0 ELSE 1
                    b == 1 - a
                    progress == Min2(Q(run.elapsed, 500), R(1))
                IN  /\ activeCustomer.alpha =
                          RAdd(R(a), RMul(R(b - a), progress))
                    /\ RLt(progress, R(1)))
    /\ [][(run.phase \in FadePhases) =>
             IF run'.phase = run.phase /\ run'.i = run.i
             THEN /\ run'.elapsed > run.elapsed
                  /\ run'.fadedOut = run.fadedOut
             ELSE /\ (run.phase = "fade_in") =>
                        /\ run'.phase \in {"buy_wait", "pass_wait"}
                        /\ run'.elapsed >= 500
                        /\ activeCustomer'.alpha = R(1)
                  /\ (run.phase = "fade_out") =>
                        /\ run'.phase \in {"fade_in", "idle"}
                        /\ activeCustomer'.alpha = R(0)
                        /\ (run'.phase = "fade_in") =>
                              run'.fadedOut = run.fadedOut + 1]_vars
    /\ []<>(run.phase \notin FadePhases)

\* the fade-out of a run's second attempt is half way, at alpha 1/2
C31_Witness ==
    /\ run.phase = "fade_out"
    /\ run.i = 1
    /\ run.elapsed = 250
    /\ activeCustomer.alpha = Q(1, 2)

\* C32: the shuffle of generateSalesAttempts has one iteration for every
\* index i from the last down to 1 and none for index 0, each swapping
\* position i with a position j, 0 <= j <= i, for every random value; the
\* shuffled array has the length and the number of true entries of the
\* array before the shuffle.
C32_ShufflePermutes ==
    (call.fn = "generateSalesAttempts" /\ ret.done) =>
        LET before == Unshuffled(call.maxCups, call.cupsSold)
        IN  /\ DOMAIN ret.swaps = 1..(Len(before) - 1)
            /\ \A i \in DOMAIN ret.swaps : ret.swaps[i] \in 0..i
            /\ Len(ret.val) = Len(before)
            /\ Buys(ret.val) = Buys(before)

\* three attempts with two buys, shuffled by swapping position 2 with
\* position 0 and position 1 with itself: the buys have moved to the end
C32_Witness ==
    /\ call.fn = "generateSalesAttempts"
    /\ ret.done
    /\ call.maxCups = 3
    /\ call.cupsSold = R(2)
    /\ ret.swaps = <<1, 0>>
    /\ ret.val = <<FALSE, TRUE, TRUE>>

\* C33 (the claim as stated): every start-day request that passes the cup,
\* recipe and busy-flag checks reaches the completion callback, which clears
\* the busy flag and enables the button.  The callback is run by the frames
\* and timers of the request's run only, so the claim needs, in every state:
\* while the busy flag is set or the button disabled, a fade or a pause of a
\* run is pending.
C33_BusyRunCompletes ==
    (isAnimating \/ btnDisabled) =>
        run.phase \in {"fade_in", "buy_wait", "pass_wait", "fade_out"}

\* C34 (the claim as stated): the completion callback of a run changes only
\* what the day's sales changed, so a purchase, price save or recipe save
\* made during the run is kept: the step that runs the callback leaves the
\* recipe and the price as they are, adds the day's profit to the money of
\* the moment, and takes the ingredients and cups of the cups sold from the
\* supplies of the moment.
C34_CommitKeepsInterleaved ==
    [][(lastOp' = "complete") =>
          LET sold == result.cups_sold
              earned == RMul(result.price_per_cup, sold)
          IN  /\ gameState'.recipe = gameState.recipe
              /\ gameState'.price_per_cup = gameState.price_per_cup
              /\ gameState'.player_money =
                    RAdd(gameState.player_money, earned)
              /\ \A f \in {"lemons", "sugar", "ice"} :
                    gameState'.supplies[f] =
                       RSub(gameState.supplies[f],
                            RMul(R(result.recipe[f]), sold))
              /\ gameState'.supplies.cups =
                    RSub(gameState.supplies.cups, sold)]_vars

\* C35: a click of a buy button whose cost calculate_supply_cost(item, qty)
\* exceeds player_money is refused and leaves the whole game state as it
\* was; any other click is accepted, lowers player_money by exactly the
\* cost, raises supplies[item] by exactly qty and leaves the other three
\* supplies and every other field of the game state unchanged.
C35_PurchaseOrRefusal ==
    (call.fn = "shopBuy" /\ ret.done) =>
        LET before == call.game_state
            cost == calculate_supply_cost(call.item, call.qty)
        IN  IF RLt(before.player_money, cost)
            THEN lastOp = "shopBuy_refused" /\ gameState = before
            ELSE /\ lastOp = "shopBuy"
                 /\ gameState.player_money = RSub(before.player_money, cost)
                 /\ gameState.supplies[call.item] =
                       RAdd(before.supplies[call.item], R(call.qty))
                 /\ \A other \in SupplyTypes \ {call.item} :
                       gameState.supplies[other] = before.supplies[other]
                 /\ \A f \in DOMAIN before \ {"player_money", "supplies"} :
                       gameState[f] = before[f]

\* three lemons cost six cents: with five cents at hand the click is refused
C35_Witness ==
    /\ call.fn = "shopBuy"
    /\ ret.done
    /\ call.item = "lemons"
    /\ call.qty = 3
    /\ call.game_state.player_money = Q(5, 100)
    /\ lastOp = "shopBuy_refused"
    /\ gameState = call.game_state

\* C36 (the claim as stated): player_money is never negative, in every state
\* reached from init_game by purchases, price saves, recipe saves and days.
C36_MoneyNonNegative ==
    RLe(R(0), gameState.player_money)

\* player_money minus total_earnings: by the ledger, the starting money
\* minus the costs of the purchases accepted so far
MoneyLessEarnings(state) == RSub(state.player_money, state.total_earnings)

\* C37 (the claim as stated): player_money equals the starting 2.00 plus
\* total_earnings minus the sum of the costs of all accepted purchases
\* whenever no run is active.  Stated step by step: at the start money less
\* earnings is 2.00; an accepted purchase lowers it by the cost of the
\* purchase; no other step changes it, the completion callback included, so
\* the purchases made during a run are still counted when the run is over.
C37_Ledger ==
    /\ [](lastOp = "init" => MoneyLessEarnings(gameState) = R(2))
    /\ [][IF lastOp' = "shopBuy" /\ clicks' = clicks + 1
          THEN \E item \in SupplyTypes, qty \in QtyInputs :
                  /\ gameState'.supplies =
                        [gameState.supplies EXCEPT ![item] = RAdd(@, R(qty))]
                  /\ MoneyLessEarnings(gameState') =
                        RSub(MoneyLessEarnings(gameState),
                             calculate_supply_cost(item, qty))
          ELSE MoneyLessEarnings(gameState') =
                  MoneyLessEarnings(gameState)]_vars

\* C38: a start-day request made when supplies.cups <= 0 or
\* recipe.lemons <= 0 is refused: the busy flag and the button stay as they
\* were, no run starts and none in progress is touched, no make_lemonade
\* result is kept or committed, the cup visuals are not refilled, and the
\* game state, weather included, is unchanged.
C38_StartRefused ==
    [][(/\ StartDayStep
        /\ \/ RLe(gameState.supplies.cups, R(0))
           \/ gameState.recipe.lemons <= 0) =>
          /\ lastOp' \in {"startDay_no_cups", "startDay_no_lemons"}
          /\ UNCHANGED <<gameState, isAnimating, btnDisabled, cups,
                         makerFrame, activeCustomer, run, result>>]_vars

\* after a completed day (the weather has been rolled to HOT) a request with
\* cups in supply but a recipe of -1 lemons has just been refused
C38_Witness ==
    /\ lastOp = "startDay_no_lemons"
    /\ gameState.weather = "hot"
    /\ RLt(R(0), gameState.supplies.cups)
    /\ gameState.recipe.lemons = -1
    /\ ~isAnimating
    /\ run = IdleRun
    /\ result = NoResult

\* the cup visuals that are empty, counted from 1
EmptyCups == {k \in 1..NumCups : ~cups[k]}

====
